---- MODULE Spec2Model ----
(***************************************************************************)
(* The .asc -> .h5 translation script of examples/plot_translator_tutorial *)
(* as a state machine.  A text is a sequence of one-character strings, a   *)
(* file is a sequence of lines, each line ending in "\n".                  *)
(*                                                                         *)
(* A parsed number is kept as an exact decimal <<mant, scale>> meaning     *)
(* mant / 10^scale, with no trailing zero in its fraction.  A float64 (the *)
(* header) or a float32 (the grid) is named by the shortest decimal that   *)
(* rounds to it, which for the at most 6 significant digits of the texts   *)
(* enumerated here is the canonical decimal of the text itself.            *)
(***************************************************************************)
EXTENDS Integers, Sequences, FiniteSets, TLC

VARIABLES
    file,            \* the lines of temp.asc on disk
    pc,              \* the statement the script is about to run
    handles,         \* source file handles that are open
    string_lines,    \* line 128
    hdr_ind,         \* position of the loop of line 138 in string_lines[3:17]
    parm_dict,       \* line 137
    num_rows, num_cols, num_pos, spectra_length,   \* lines 162-165
    raw_data_2d,     \* line 176
    line_ind,        \* loop variable of line 177
    max_v,           \* line 186
    volt_vec,        \* line 192
    writer_calls,    \* how many times tran.translate was called
    h5_main,         \* the grid handed to tran.translate
    h5_state,        \* the destination container: absent, open, closed
    error            \* the exception that ended the run, if any

vars == <<file, pc, handles, string_lines, hdr_ind, parm_dict, num_rows, num_cols,
          num_pos, spectra_length, raw_data_2d, line_ind, max_v, volt_vec,
          writer_calls, h5_main, h5_state, error>>

(***************************************************************************)
(* Bounds of the enumerated inputs.                                        *)
(***************************************************************************)
MaxValLen == 3
MaxDim == 2
MaxSpec == 2
MaxV == 5
MaxAxisLen == 12

(***************************************************************************)
(* Constants of the script.                                                *)
(***************************************************************************)
parm_start == 3
parm_stop == 17
num_headers == 403

(***************************************************************************)
(* Python's str methods, on sequences of characters.                       *)
(***************************************************************************)
Whitespace == {" ", "\t", "\n"}

RECURSIVE lstrip(_)
lstrip(s) == IF s # <<>> /\ s[1] \in Whitespace THEN lstrip(Tail(s)) ELSE s

RECURSIVE rstrip(_)
rstrip(s) ==
    IF s # <<>> /\ s[Len(s)] \in Whitespace THEN rstrip(SubSeq(s, 1, Len(s) - 1)) ELSE s

strip(s) == rstrip(lstrip(s))

StartsWith(s, old) == Len(s) >= Len(old) /\ SubSeq(s, 1, Len(old)) = old

\* s.replace(old, ''): every occurrence of old, found left to right, is removed.
RECURSIVE replace(_, _)
replace(s, old) ==
    IF s = <<>> THEN <<>>
    ELSE IF StartsWith(s, old) THEN replace(SubSeq(s, Len(old) + 1, Len(s)), old)
    ELSE <<s[1]>> \o replace(Tail(s), old)

\* s.split(sep) for a one-character sep: always at least one piece.
RECURSIVE split(_, _)
split(s, sep) ==
    IF \A i \in 1..Len(s) : s[i] # sep THEN <<s>>
    ELSE LET p == CHOOSE i \in 1..Len(s) : s[i] = sep /\ \A j \in 1..(i - 1) : s[j] # sep
         IN <<SubSeq(s, 1, p - 1)>> \o split(SubSeq(s, p + 1, Len(s)), sep)

(***************************************************************************)
(* float(text): optional blanks, optional sign, digits with at most one    *)
(* point and at least one digit.  Exponents, inf, nan and underscores use  *)
(* characters that no enumerated text holds.                               *)
(***************************************************************************)
Digits == {"0", "1", "2", "3", "4", "5", "6", "7", "8", "9"}

DigitVal(c) ==
    CASE c = "0" -> 0 [] c = "1" -> 1 [] c = "2" -> 2 [] c = "3" -> 3 [] c = "4" -> 4
      [] c = "5" -> 5 [] c = "6" -> 6 [] c = "7" -> 7 [] c = "8" -> 8 [] c = "9" -> 9

RECURSIVE DigitsVal(_)
DigitsVal(s) ==
    IF s = <<>> THEN 0
    ELSE DigitsVal(SubSeq(s, 1, Len(s) - 1)) * 10 + DigitVal(s[Len(s)])

Unsigned(s) == IF s # <<>> /\ s[1] \in {"+", "-"} THEN Tail(s) ELSE s

IsFloatText(s) ==
    LET u == Unsigned(strip(s))
    IN /\ \A i \in 1..Len(u) : u[i] \in Digits \cup {"."}
       /\ Cardinality({i \in 1..Len(u) : u[i] = "."}) <= 1
       /\ \E i \in 1..Len(u) : u[i] \in Digits

RECURSIVE Normal(_)
Normal(d) ==
    IF d[2] > 0 /\ d[1] % 10 = 0 THEN Normal(<<d[1] \div 10, d[2] - 1>>) ELSE d

\* The decimal of a text for which IsFloatText holds.
FloatOf(s) ==
    LET t == strip(s)
        u == Unsigned(t)
        digits == SelectSeq(u, LAMBDA c : c \in Digits)
        pieces == split(u, ".")
        scale == IF Len(pieces) = 2 THEN Len(pieces[2]) ELSE 0
        mag == DigitsVal(digits)
    IN Normal(<<IF t[1] = "-" THEN 0 - mag ELSE mag, scale>>)

RECURSIVE Pow10(_)
Pow10(n) == IF n = 0 THEN 1 ELSE 10 * Pow10(n - 1)

\* int(x) of a float: truncation towards zero.
Trunc(d) ==
    IF d[1] >= 0 THEN d[1] \div Pow10(d[2]) ELSE 0 - ((0 - d[1]) \div Pow10(d[2]))

(***************************************************************************)
(* The values parm_dict holds: a Python int, float or str.                 *)
(***************************************************************************)
PyInt(n) == [tag |-> "int", mant |-> n, scale |-> 0, str |-> <<>>]
PyFloat(d) == [tag |-> "float", mant |-> d[1], scale |-> d[2], str |-> <<>>]
PyStr(s) == [tag |-> "str", mant |-> 0, scale |-> 0, str |-> s]

(***************************************************************************)
(* Exceptions: the type, the stage of the script that raised it, what its  *)
(* message names, and the text it quotes (ValueError of a conversion).     *)
(***************************************************************************)
NoError == [type |-> "none", where |-> "none", reports |-> {}, token |-> <<>>]
Raise(type, where, reports, token) ==
    [type |-> type, where |-> where, reports |-> reports, token |-> token]

(***************************************************************************)
(* Lines 139-150: one pass of the header loop over one line.               *)
(***************************************************************************)
\* Lines 143-149: float(test), demoted to int when test % 1 == 0; a text
\* float() rejects is kept as it is.
Coerce(text) ==
    IF IsFloatText(text)
    THEN LET d == FloatOf(text) IN IF d[2] = 0 THEN PyInt(d[1]) ELSE PyFloat(d)
    ELSE PyStr(text)

\* Lines 139-141: the pieces of the line between its "=" signs.
temp(line) == split(replace(replace(line, <<"#", " ">>), <<"\n">>), "=")

\* Line 142 reads temp[1]: an IndexError when the line holds no "=".
HeaderLineOk(line) == Len(temp(line)) >= 2

HeaderKey(line) == strip(temp(line)[1])

\* Line 142: test = temp[1].strip(), the text that is coerced.
test(line) == strip(temp(line)[2])

HeaderValue(line) == Coerce(test(line))

\* string_lines[3:17]: a slice never fails, it is cut to the lines there are.
HeaderRange(lines) ==
    SubSeq(lines, parm_start + 1, IF Len(lines) < parm_stop THEN Len(lines) ELSE parm_stop)

\* parm_dict[key] = value
DictSet(d, key, value) ==
    [k \in (DOMAIN d) \cup {key} |-> IF k = key THEN value ELSE d[k]]

EmptyDict == [k \in {} |-> PyInt(0)]

(***************************************************************************)
(* Lines 162-165: int(parm_dict[key]).                                     *)
(***************************************************************************)
K_x_pixels == <<"x", "-", "p", "i", "x", "e", "l", "s">>
K_y_pixels == <<"y", "-", "p", "i", "x", "e", "l", "s">>
K_z_points == <<"z", "-", "p", "o", "i", "n", "t", "s">>

HasKey(d, key) == key \in DOMAIN d

\* int() of a str that float() rejected is a ValueError too.
IntOk(v) == v.tag # "str"

IntOf(v) == IF v.tag = "int" THEN v.mant ELSE Trunc(<<v.mant, v.scale>>)

DimOk(d, key) == HasKey(d, key) /\ IntOk(d[key])

DimError(d, key) ==
    IF ~HasKey(d, key) THEN Raise("KeyError", "dims", {"key"}, key)
    ELSE Raise("ValueError", "dims", {"token"}, d[key].str)

(***************************************************************************)
(* Lines 176-180: the grid.                                                *)
(***************************************************************************)
Zero == <<0, 0>>

\* np.zeros(shape=(rows, cols))
zeros(rows, cols) == [i \in 1..rows |-> [j \in 1..cols |-> Zero]]

\* A reader that counts the rows from 1.
LineIndexFromOne(ind) == num_headers + ind + 1

\* Line 178: string_lines[num_headers + line_ind], a 0-based index.
LineIndex(ind) == num_headers + ind

\* Line 179: this_line.split('\t')[:-1]
StringSpectrum(this_line) ==
    LET pieces == split(this_line, "\t") IN SubSeq(pieces, 1, Len(pieces) - 1)

\* np.array(string_spectrum, dtype=np.float32) converts every text or raises
\* ValueError quoting the first text it could not convert.
ArrayOk(texts) == \A j \in 1..Len(texts) : IsFloatText(texts[j])

FirstBad(texts) ==
    texts[CHOOSE j \in 1..Len(texts) :
              ~IsFloatText(texts[j]) /\ \A k \in 1..(j - 1) : IsFloatText(texts[k])]

Array(texts) == [j \in 1..Len(texts) |-> FloatOf(texts[j])]

\* raw_data_2d[line_ind] = arr: arr of the row's length is copied, arr of
\* length 1 is broadcast over the row, any other length is a ValueError.
AssignOk(arr, width) == Len(arr) = width \/ Len(arr) = 1

Assigned(arr, width) ==
    IF Len(arr) = width THEN arr ELSE [j \in 1..width |-> arr[1]]

(***************************************************************************)
(* Line 192: np.linspace(start, stop, num), endpoint included.  A value is *)
(* the exact fraction <<numerator, denominator>>.                          *)
(***************************************************************************)
\* np.linspace(start, stop, num, endpoint=False)
linspaceOpen(start, stop, num) ==
    [i \in 1..num |-> <<start * num + (i - 1) * (stop - start), num>>]

linspace(start, stop, num) ==
    IF num = 1 THEN <<<<start, 1>>>>
    ELSE [i \in 1..num |-> <<start * (num - 1) + (i - 1) * (stop - start), num - 1>>]

(***************************************************************************)
(* The enumerated input files.  Every file has the layout the script       *)
(* expects: parameter lines at 3..16, num_headers header lines, then the   *)
(* data rows; one file is empty.                                           *)
(***************************************************************************)
Texts(chars, n) == UNION {[1..k -> chars] : k \in 0..n}

Marker == <<"#", " ">>
Filler == <<"#", "\n">>
ParmLine(key, value) == Marker \o key \o <<" ", "=", " ">> \o value \o <<"\n">>

DigitChar(n) == CHOOSE c \in Digits : DigitVal(c) = n

One == <<"1">>
DefaultLine == ParmLine(<<"k">>, One)

HeaderLines(xv, yv, zv, free) ==
    [i \in 1..num_headers |->
        CASE i = parm_start + 1 -> ParmLine(K_x_pixels, xv)
          [] i = parm_start + 2 -> ParmLine(K_y_pixels, yv)
          [] i = parm_start + 3 -> ParmLine(K_z_points, zv)
          [] i = parm_start + 4 -> free
          [] i > parm_start + 4 /\ i <= parm_stop -> ParmLine(<<"p">>, One)
          [] OTHER -> Filler]

\* Data rows: texts joined by tabs, then the end of the row.
RECURSIVE Join(_)
Join(texts) ==
    IF texts = <<>> THEN <<>>
    ELSE IF Len(texts) = 1 THEN texts[1]
    ELSE texts[1] \o <<"\t">> \o Join(Tail(texts))

RowEnd == <<"\t", "\n">>
BareEnd == <<"\n">>

NumToks == <<One, <<".", "5">>, <<"2", ".", "5">>>>

\* The cells of a well-formed block differ along rows and columns.
Cell(i, j, p, z) == NumToks[((i * z + j + p) % Len(NumToks)) + 1]
GoodRow(i, p, z) == Join([j \in 1..z |-> Cell(i, j, p, z)]) \o RowEnd
Block(n, p, z) == [i \in 1..n |-> GoodRow(i, p, z)]

OddToks == {One, <<"a">>, <<>>}
OddRows(z) ==
    {Join(t) \o e : t \in Texts(OddToks, z + 1), e \in {RowEnd, BareEnd}}

ValueChars == {"5", "0", ".", "a", "=", "#", " "}
FreeLines ==
    {ParmLine(<<"k">>, v) : v \in Texts(ValueChars, MaxValLen)}
        \cup {Marker \o <<"k">> \o v \o <<"\n">> : v \in Texts(ValueChars \ {"="}, 1)}
        \cup {Filler, <<"\n">>}

DimTexts ==
    {<<DigitChar(d)>> : d \in 0..MaxDim} \cup {<<"-", "1">>, <<"a">>, <<"1", ".", "5">>}

DimText(d) == <<DigitChar(d)>>

HeaderFiles == {HeaderLines(One, One, One, free) \o Block(1, 0, 1) : free \in FreeLines}

\* The block that matches the sizes a header gives, when it gives sizes.
DimOf(text) == IF IsFloatText(text) THEN Trunc(FloatOf(text)) ELSE 1
MatchingBlock(xv, yv, zv) ==
    IF DimOf(xv) * DimOf(yv) >= 0 /\ DimOf(zv) >= 0
    THEN Block(DimOf(xv) * DimOf(yv), 0, DimOf(zv))
    ELSE Block(1, 0, 1)

DimFiles ==
    {HeaderLines(xv, yv, zv, DefaultLine) \o MatchingBlock(xv, yv, zv) :
        xv \in DimTexts, yv \in DimTexts, zv \in DimTexts}

GridFiles ==
    UNION {{HeaderLines(DimText(x), DimText(y), DimText(z), DefaultLine) \o Block(n, p, z) :
                n \in 0..(x * y + 1), p \in 0..(Len(NumToks) - 1)} :
           x \in 1..MaxDim, y \in 1..MaxDim, z \in 1..MaxSpec}

OddFiles ==
    UNION {{HeaderLines(DimText(x), One, DimText(z), DefaultLine)
                \o [i \in 1..x |-> IF i = at THEN row ELSE GoodRow(i, 0, z)] :
                at \in 1..x, row \in OddRows(z)} :
           x \in 1..MaxDim, z \in 1..MaxSpec}

InputFiles == HeaderFiles \cup DimFiles \cup GridFiles \cup OddFiles \cup {<<>>}

(***************************************************************************)
(* The script, statement by statement.                                     *)
(***************************************************************************)
\* A script that calls the translator before it builds the axis.
FollowingWriterFirst(p) ==
    CASE p = "preview" -> "preview_read"
      [] p = "preview_read" -> "open"
      [] p = "open" -> "readlines"
      [] p = "readlines" -> "close"
      [] p = "close" -> "header"
      [] p = "header" -> "dims"
      [] p = "dims" -> "zeros"
      [] p = "zeros" -> "grid"
      [] p = "grid" -> "translate"
      [] p = "translate" -> "max_v"
      [] p = "max_v" -> "linspace"
      [] p = "linspace" -> "written"
      [] p = "written" -> "closed"

\* The statement that runs after p when p raised nothing.
Following(p) ==
    CASE p = "preview" -> "preview_read"
      [] p = "preview_read" -> "open"
      [] p = "open" -> "readlines"
      [] p = "readlines" -> "close"
      [] p = "close" -> "header"
      [] p = "header" -> "dims"
      [] p = "dims" -> "zeros"
      [] p = "zeros" -> "grid"
      [] p = "grid" -> "max_v"
      [] p = "max_v" -> "linspace"
      [] p = "linspace" -> "translate"
      [] p = "translate" -> "written"
      [] p = "written" -> "closed"

\* An exception nobody catches ends the script.
Uncaught(e) == pc' = "failed" /\ error' = e

Continue == pc' = Following(pc) /\ error' = error

Init ==
    /\ file \in InputFiles
    /\ pc = "preview"
    /\ handles = 0
    /\ string_lines = <<>>
    /\ hdr_ind = 0
    /\ parm_dict = EmptyDict
    /\ num_rows = 0 /\ num_cols = 0 /\ num_pos = 0 /\ spectra_length = 0
    /\ raw_data_2d = <<>>
    /\ line_ind = 0
    /\ max_v = 0
    /\ volt_vec = <<>>
    /\ writer_calls = 0
    /\ h5_main = <<>>
    /\ h5_state = "absent"
    /\ error = NoError

\* Line 108: with open(data_file_path, 'r') as file_handle
PreviewOpen ==
    /\ pc = "preview"
    /\ \E ok \in BOOLEAN :
          IF ok THEN handles' = handles + 1 /\ Continue
          ELSE handles' = handles /\ Uncaught(Raise("IOError", "preview", {}, <<>>))
    /\ UNCHANGED <<file, string_lines, hdr_ind, parm_dict, num_rows, num_cols, num_pos,
                   spectra_length, raw_data_2d, line_ind, max_v, volt_vec, writer_calls,
                   h5_main, h5_state>>

\* Lines 109-110 and the end of the with block, which closes the handle
\* whether or not readline raised.
PreviewRead ==
    /\ pc = "preview_read"
    /\ handles' = handles - 1
    /\ \E ok \in BOOLEAN :
          IF ok THEN Continue ELSE Uncaught(Raise("IOError", "preview", {}, <<>>))
    /\ UNCHANGED <<file, string_lines, hdr_ind, parm_dict, num_rows, num_cols, num_pos,
                   spectra_length, raw_data_2d, line_ind, max_v, volt_vec, writer_calls,
                   h5_main, h5_state>>

\* Line 127: file_handle = open(data_file_path, 'r')
Open ==
    /\ pc = "open"
    /\ \E ok \in BOOLEAN :
          IF ok THEN handles' = handles + 1 /\ Continue
          ELSE handles' = handles /\ Uncaught(Raise("IOError", "load", {}, <<>>))
    /\ UNCHANGED <<file, string_lines, hdr_ind, parm_dict, num_rows, num_cols, num_pos,
                   spectra_length, raw_data_2d, line_ind, max_v, volt_vec, writer_calls,
                   h5_main, h5_state>>

\* Line 128: string_lines = file_handle.readlines(); a read or decoding error
\* leaves the script before line 129.
ReadLines ==
    /\ pc = "readlines"
    /\ \E ok \in BOOLEAN :
          IF ok THEN string_lines' = file /\ Continue
          ELSE string_lines' = string_lines /\ Uncaught(Raise("IOError", "load", {}, <<>>))
    /\ UNCHANGED <<file, handles, hdr_ind, parm_dict, num_rows, num_cols, num_pos,
                   spectra_length, raw_data_2d, line_ind, max_v, volt_vec, writer_calls,
                   h5_main, h5_state>>

\* Line 129: file_handle.close()
Close ==
    /\ pc = "close"
    /\ handles' = handles - 1
    /\ Continue
    /\ UNCHANGED <<file, string_lines, hdr_ind, parm_dict, num_rows, num_cols, num_pos,
                   spectra_length, raw_data_2d, line_ind, max_v, volt_vec, writer_calls,
                   h5_main, h5_state>>

\* Lines 138-150: one pass of the loop, or its end.
HeaderLine ==
    /\ pc = "header"
    /\ LET range == HeaderRange(string_lines)
       IN IF hdr_ind >= Len(range)
          THEN Continue /\ UNCHANGED <<hdr_ind, parm_dict>>
          ELSE LET line == range[hdr_ind + 1]
               IN IF HeaderLineOk(line)
                  THEN /\ parm_dict' = DictSet(parm_dict, HeaderKey(line), HeaderValue(line))
                       /\ hdr_ind' = hdr_ind + 1
                       /\ UNCHANGED <<pc, error>>
                  ELSE /\ Uncaught(Raise("IndexError", "header", {}, <<>>))
                       /\ UNCHANGED <<hdr_ind, parm_dict>>
    /\ UNCHANGED <<file, handles, string_lines, num_rows, num_cols, num_pos,
                   spectra_length, raw_data_2d, line_ind, max_v, volt_vec, writer_calls,
                   h5_main, h5_state>>

\* Lines 162-165: the statements run in order, the first failure ends them.
Dims ==
    /\ pc = "dims"
    /\ IF ~DimOk(parm_dict, K_y_pixels)
       THEN /\ Uncaught(DimError(parm_dict, K_y_pixels))
            /\ UNCHANGED <<num_rows, num_cols, num_pos, spectra_length>>
       ELSE /\ num_rows' = IntOf(parm_dict[K_y_pixels])
            /\ IF ~DimOk(parm_dict, K_x_pixels)
               THEN /\ Uncaught(DimError(parm_dict, K_x_pixels))
                    /\ UNCHANGED <<num_cols, num_pos, spectra_length>>
               ELSE /\ num_cols' = IntOf(parm_dict[K_x_pixels])
                    /\ num_pos' = num_rows' * num_cols'
                    /\ IF ~DimOk(parm_dict, K_z_points)
                       THEN /\ Uncaught(DimError(parm_dict, K_z_points))
                            /\ UNCHANGED spectra_length
                       ELSE /\ spectra_length' = IntOf(parm_dict[K_z_points])
                            /\ Continue
    /\ UNCHANGED <<file, handles, string_lines, hdr_ind, parm_dict, raw_data_2d,
                   line_ind, max_v, volt_vec, writer_calls, h5_main, h5_state>>

\* Line 176: np.zeros rejects a negative dimension.
Zeros ==
    /\ pc = "zeros"
    /\ IF num_pos < 0 \/ spectra_length < 0
       THEN Uncaught(Raise("ValueError", "zeros", {}, <<>>)) /\ UNCHANGED raw_data_2d
       ELSE raw_data_2d' = zeros(num_pos, spectra_length) /\ Continue
    /\ UNCHANGED <<file, handles, string_lines, hdr_ind, parm_dict, num_rows, num_cols,
                   num_pos, spectra_length, line_ind, max_v, volt_vec, writer_calls,
                   h5_main, h5_state>>

\* Lines 177-180: one pass of the loop, or its end.
GridRow ==
    /\ pc = "grid"
    /\ IF line_ind >= num_pos
       THEN Continue /\ UNCHANGED <<raw_data_2d, line_ind>>
       ELSE IF LineIndex(line_ind) >= Len(string_lines)
       THEN /\ Uncaught(Raise("IndexError", "grid", {}, <<>>))
            /\ UNCHANGED <<raw_data_2d, line_ind>>
       ELSE LET this_line == string_lines[LineIndex(line_ind) + 1]
                string_spectrum == StringSpectrum(this_line)
            IN IF ~ArrayOk(string_spectrum)
               THEN /\ Uncaught(Raise("ValueError", "grid", {"token"}, FirstBad(string_spectrum)))
                    /\ UNCHANGED <<raw_data_2d, line_ind>>
               ELSE IF ~AssignOk(Array(string_spectrum), spectra_length)
               THEN /\ Uncaught(Raise("ValueError", "grid", {"expected", "actual"}, <<>>))
                    /\ UNCHANGED <<raw_data_2d, line_ind>>
               ELSE /\ raw_data_2d' =
                          [raw_data_2d EXCEPT ![line_ind + 1] =
                               Assigned(Array(string_spectrum), spectra_length)]
                    /\ line_ind' = line_ind + 1
                    /\ UNCHANGED <<pc, error>>
    /\ UNCHANGED <<file, handles, string_lines, hdr_ind, parm_dict, num_rows, num_cols,
                   num_pos, spectra_length, max_v, volt_vec, writer_calls, h5_main,
                   h5_state>>

\* Line 186: max_v = 1
SetMaxV ==
    /\ pc = "max_v"
    /\ max_v' = 1
    /\ Continue
    /\ UNCHANGED <<file, handles, string_lines, hdr_ind, parm_dict, num_rows, num_cols,
                   num_pos, spectra_length, raw_data_2d, line_ind, volt_vec, writer_calls,
                   h5_main, h5_state>>

\* Line 192: volt_vec = np.linspace(-1 * max_v, 1 * max_v, spectra_length)
Linspace ==
    /\ pc = "linspace"
    /\ volt_vec' = linspace((0 - 1) * max_v, 1 * max_v, spectra_length)
    /\ Continue
    /\ UNCHANGED <<file, handles, string_lines, hdr_ind, parm_dict, num_rows, num_cols,
                   num_pos, spectra_length, raw_data_2d, line_ind, max_v, writer_calls,
                   h5_main, h5_state>>

\* Lines 204-209: tran.translate(h5_path, raw_data_2d, ...) is called and
\* takes the grid.
Translate ==
    /\ pc = "translate"
    /\ writer_calls' = writer_calls + 1
    /\ h5_main' = raw_data_2d
    /\ h5_state' = "open"
    /\ Continue
    /\ UNCHANGED <<file, handles, string_lines, hdr_ind, parm_dict, num_rows, num_cols,
                   num_pos, spectra_length, raw_data_2d, line_ind, max_v, volt_vec>>

\* The translator returns with the container closed, or raises.
TranslateReturn ==
    /\ pc = "written"
    /\ \E ok \in BOOLEAN :
          IF ok THEN h5_state' = "closed" /\ Continue
          ELSE h5_state' = h5_state /\ Uncaught(Raise("IOError", "write", {}, <<>>))
    /\ UNCHANGED <<file, handles, string_lines, hdr_ind, parm_dict, num_rows, num_cols,
                   num_pos, spectra_length, raw_data_2d, line_ind, max_v, volt_vec,
                   writer_calls, h5_main>>

Next ==
    \/ PreviewOpen
    \/ PreviewRead
    \/ Open
    \/ ReadLines
    \/ Close
    \/ HeaderLine
    \/ Dims
    \/ Zeros
    \/ GridRow
    \/ SetMaxV
    \/ Linspace
    \/ Translate
    \/ TranslateReturn

Spec == Init /\ [][Next]_vars

(***************************************************************************)
(* The axis alone: np.linspace over every bias range and length.           *)
(***************************************************************************)
InitAxis ==
    /\ file = <<>>
    /\ pc = "linspace"
    /\ handles = 0
    /\ string_lines = <<>>
    /\ hdr_ind = 0
    /\ parm_dict = EmptyDict
    /\ num_rows = 0 /\ num_cols = 0 /\ num_pos = 0
    /\ spectra_length \in 1..MaxAxisLen
    /\ raw_data_2d = <<>>
    /\ line_ind = 0
    /\ max_v \in 1..MaxV
    /\ volt_vec = <<>>
    /\ writer_calls = 0
    /\ h5_main = <<>>
    /\ h5_state = "absent"
    /\ error = NoError

NextAxis == Linspace

SpecAxis == InitAxis /\ [][NextAxis]_vars

(***************************************************************************)
(* What the specification says of a line, read off the line itself.        *)
(***************************************************************************)
HasEq(line) == \E i \in 1..Len(line) : line[i] = "="

FirstEq(line) == CHOOSE i \in 1..Len(line) : line[i] = "=" /\ \A j \in 1..(i - 1) : line[j] # "="

\* <marker><key> = <value>, ended by the line terminator.
WellFormedLine(line) ==
    /\ StartsWith(line, Marker)
    /\ line[Len(line)] = "\n"
    /\ HasEq(line)

\* The trimmed text between the marker and the first "=".
SpecKey(line) == strip(SubSeq(line, Len(Marker) + 1, FirstEq(line) - 1))

\* The whole trimmed text after the first "=".
SpecValue(line) == strip(SubSeq(line, FirstEq(line) + 1, Len(line) - 1))

\* Integer for a number with a zero fraction, Float for any other number,
\* the text itself for what is no number.
SpecCoerced(v) ==
    IF ~IsFloatText(v) THEN PyStr(v)
    ELSE IF FloatOf(v)[2] = 0 THEN PyInt(FloatOf(v)[1]) ELSE PyFloat(FloatOf(v))

\* A value that holds neither "=" nor the marker.
PlainValue(line) ==
    LET v == SubSeq(line, FirstEq(line) + 1, Len(line))
    IN /\ ~HasEq(v)
       /\ \A i \in 1..(Len(v) - 1) : SubSeq(v, i, i + 1) # Marker

\* The header line the loop has just stored, while the loop runs.
JustParsed == pc = "header" /\ hdr_ind >= 1
LastLine == HeaderRange(string_lines)[hdr_ind]

\* The tokens of a data row: split on tabs, less a final empty piece only.
SpecTokens(line) ==
    LET body == IF line # <<>> /\ line[Len(line)] = "\n" THEN SubSeq(line, 1, Len(line) - 1) ELSE line
        pieces == split(body, "\t")
    IN IF pieces[Len(pieces)] = <<>> THEN SubSeq(pieces, 1, Len(pieces) - 1) ELSE pieces

DataRow(i) == string_lines[num_headers + i]
DataRowCount == Len(string_lines) - num_headers
RowLength(i) == Len(SpecTokens(DataRow(i)))
Numeric(line) == \A t \in 1..Len(SpecTokens(line)) : IsFloatText(SpecTokens(line)[t])
EndsRow(line) == Len(line) >= Len(RowEnd) /\ SubSeq(line, Len(line) - Len(RowEnd) + 1, Len(line)) = RowEnd

\* A block of num_pos rows, each spectra_length numeric tokens, every token
\* followed by a tab, the row by the line terminator.
FormatRow(toks) == Join(toks) \o RowEnd
NumTokSet == {NumToks[k] : k \in 1..Len(NumToks)}
RowsOf(toks) == [j \in 1..Len(toks) |-> FloatOf(toks[j])]
WellFormedBlock ==
    /\ spectra_length >= 1
    /\ Len(file) = num_headers + num_pos
    /\ \A i \in 1..num_pos :
          \E toks \in [1..spectra_length -> NumTokSet] : file[num_headers + i] = FormatRow(toks)

AfterHeader == {"dims", "zeros", "grid", "max_v", "linspace", "translate", "written", "closed"}
AfterGrid == {"max_v", "linspace", "translate", "written", "closed"}
FailedIn(where) == pc = "failed" /\ error.where = where

\* Exact fractions <<numerator, denominator>>, the denominator positive.
Less(a, b) == a[1] * b[2] < b[1] * a[2]
Equals(a, n) == a[1] = n * a[2]
Increasing(v) == \A i \in 1..(Len(v) - 1) : Less(v[i], v[i + 1])

\* The stages: 0 not started, 1 parsed header, 2 parsed grid, 3 built axes,
\* 4 written, 5 closed, 6 failed.
StageOf(p) ==
    CASE p \in {"preview", "preview_read", "open", "readlines", "close", "header"} -> 0
      [] p \in {"dims", "zeros", "grid"} -> 1
      [] p \in {"max_v", "linspace"} -> 2
      [] p = "translate" -> 3
      [] p = "written" -> 4
      [] p = "closed" -> 5
      [] p = "failed" -> 6

(***************************************************************************)
(* The claims.                                                             *)
(***************************************************************************)
\* C1: every well-formed header line <marker><key> = <value> stores, under
\* its trimmed key, an Integer when the trimmed value is a number with a zero
\* fraction, a Float when it is any other number, and the trimmed value
\* itself when it is no number.
C1_Coercion ==
    (JustParsed /\ WellFormedLine(LastLine)) =>
        /\ SpecKey(LastLine) \in DOMAIN parm_dict
        /\ parm_dict[SpecKey(LastLine)] = SpecCoerced(SpecValue(LastLine))

\* The coercion of C1 for the lines whose value holds neither "=" nor the
\* marker: it holds of the code.
CoercionOfPlainValues ==
    (JustParsed /\ WellFormedLine(LastLine) /\ PlainValue(LastLine)) =>
        /\ SpecKey(LastLine) \in DOMAIN parm_dict
        /\ parm_dict[SpecKey(LastLine)] = SpecCoerced(SpecValue(LastLine))

\* C2: a data block of exactly num_rows * num_cols well-formed rows gives a
\* grid of that many rows of spectral_length values in which element [i][j]
\* is the value of token j of row i, and the Grid Reader does not fail on it.
C2_GridEqualsTokens ==
    /\ (pc \in AfterGrid /\ WellFormedBlock) =>
          /\ Len(raw_data_2d) = num_rows * num_cols
          /\ \A i \in 1..num_pos :
                /\ Len(raw_data_2d[i]) = spectra_length
                /\ \A toks \in [1..spectra_length -> NumTokSet] :
                      file[num_headers + i] = FormatRow(toks) => raw_data_2d[i] = RowsOf(toks)
    /\ FailedIn("grid") => ~WellFormedBlock

\* C2, its case: a well-formed block of several rows and columns, with
\* differing cells, has been read.
C2_Witness ==
    /\ pc = "max_v"
    /\ WellFormedBlock
    /\ num_pos >= 2 /\ spectra_length >= 2
    /\ raw_data_2d[1] # raw_data_2d[2]
    /\ raw_data_2d[1][1] # raw_data_2d[1][2]

\* C3: a number of data rows other than num_rows * num_cols, fewer or more,
\* is an error of the Grid Reader, and no grid reaches the Container Writer.
C3_RowCountChecked ==
    /\ pc \in AfterGrid => DataRowCount = num_pos
    /\ writer_calls > 0 => DataRowCount = num_pos

\* C4: a row whose token count is not spectral_length stops the Grid Reader
\* with an error, whatever the wrong count is, so that no such row is ever
\* stored in the grid.
C4_RowLengthChecked ==
    (pc \in {"grid"} \cup AfterGrid \/ FailedIn("grid") \/ FailedIn("write")) =>
        \A i \in 1..line_ind : RowLength(i) = spectra_length

\* C5: for every max_v > 0 and every spectral_length >= 1 the axis has
\* spectral_length values, strictly increasing, the first -max_v and the
\* last +max_v.
C5_AxisAsClaimed ==
    pc = "translate" =>
        /\ Len(volt_vec) = spectra_length
        /\ Increasing(volt_vec)
        /\ Equals(volt_vec[1], 0 - max_v)
        /\ Equals(volt_vec[Len(volt_vec)], max_v)

\* C5 as amended: the same with the last value +max_v from spectral_length 2
\* on; the axis of spectral_length 1 is the single value -max_v.
C5_AxisAmended ==
    pc = "translate" =>
        /\ Len(volt_vec) = spectra_length
        /\ Increasing(volt_vec)
        /\ Equals(volt_vec[1], 0 - max_v)
        /\ spectra_length >= 2 => Equals(volt_vec[Len(volt_vec)], max_v)
        /\ spectra_length = 1 => Equals(volt_vec[Len(volt_vec)], 0 - max_v)

\* C5, its case: an axis of three or more values over a range other than
\* [-1, 1] has been built.
C5_Witness ==
    /\ pc = "translate"
    /\ spectra_length >= 3
    /\ max_v >= 2
    /\ Len(volt_vec) = spectra_length

\* C6: a header line with no "=" is not parsed, no later stage runs on the
\* file, and the error of the failed parse names the position of the line.
C6_MalformedLineLocated ==
    /\ \A i \in 1..hdr_ind : HasEq(HeaderRange(string_lines)[i])
    /\ (\E i \in 1..Len(HeaderRange(string_lines)) : ~HasEq(HeaderRange(string_lines)[i])) =>
          pc \notin AfterHeader
    /\ FailedIn("header") => "line" \in error.reports

\* C7: a non-numeric token in a data row (here a row that ends in the
\* trailing tab and line terminator) fails the Grid Reader with an error
\* naming the row, the column and the token, and the row is not stored.
C7_NumericParseError ==
    (/\ FailedIn("grid")
     /\ line_ind < DataRowCount
     /\ EndsRow(DataRow(line_ind + 1))
     /\ ~Numeric(DataRow(line_ind + 1))) =>
        /\ {"row", "col", "token"} \subseteq error.reports
        /\ raw_data_2d[line_ind + 1] = [j \in 1..spectra_length |-> Zero]

\* C8: a header line is split on its first "=" only: the stored key is the
\* trimmed text between the marker and that "=", the text submitted to
\* coercion is all the trimmed text after it.
C8_SplitOnFirstEq ==
    (JustParsed /\ WellFormedLine(LastLine)) =>
        /\ HeaderKey(LastLine) = SpecKey(LastLine)
        /\ test(LastLine) = SpecValue(LastLine)

\* C9, in every state: the writer has been called at most once, and only
\* with the header parsed, every grid row read and the axis built; the run
\* has failed exactly when an exception was raised.
C9_State ==
    /\ writer_calls <= 1
    /\ (pc = "failed") <=> (error # NoError)
    /\ writer_calls = 1 <=> (pc \in {"written", "closed"} \/ FailedIn("write"))
    /\ writer_calls = 1 =>
          /\ hdr_ind = Len(HeaderRange(string_lines))
          /\ line_ind = num_pos
          /\ Len(raw_data_2d) = num_pos
          /\ Len(volt_vec) = spectra_length
          /\ h5_main = raw_data_2d

\* C9, in every step: a stage is followed by itself, by the next stage or
\* by failure; nothing leaves failed or closed; the writer is called from
\* built axes only, with no error raised.
C9_Step ==
    /\ \/ StageOf(pc') = StageOf(pc)
       \/ StageOf(pc) < 5 /\ StageOf(pc') = StageOf(pc) + 1
       \/ StageOf(pc) < 5 /\ pc' = "failed"
    /\ pc = "failed" => pc' = "failed"
    /\ writer_calls' # writer_calls => StageOf(pc) = 3 /\ error = NoError /\ error' = NoError

\* C9: the stages run in the order not started, parsed header, parsed grid,
\* built axes, written, closed, none repeated or revisited; the Container
\* Writer is called at most once and only after header, grid and axes
\* completed without error; an error ends the run in a failed state from
\* which no later stage runs.
C9_StagesInOrder == [](C9_State) /\ [][C9_Step]_vars

\* C9, its case: a run over several grid rows has gone through every stage
\* and closed the container.
C9_Witness == pc = "closed" /\ writer_calls = 1 /\ num_pos >= 2 /\ h5_state = "closed"

\* C10: no source file handle is open in a terminal state, whether the load
\* succeeded or reading the lines failed, nor once header parsing has begun.
C10_HandleReleased ==
    /\ pc \in {"failed", "closed"} => handles = 0
    /\ pc \in {"header"} \cup AfterHeader => handles = 0

====
